---- MODULE Spec2Model ----
(***************************************************************************)
(* Model of the semantic intent matcher: the embedding client              *)
(* (getEmbeddings), the scorer (cosineSimilarity), the threshold constant  *)
(* (SIMILARITY_THRESHOLD), the matcher built on them, and the              *)
(* useOnlineStatus hook.                                                   *)
(*                                                                         *)
(* JavaScript numbers are IEEE-754 binary64 values.  The scorer's results  *)
(* are modelled bit for bit: square root, product and quotient are         *)
(* rounded to nearest-even at 53 significant bits.  Significands do not    *)
(* fit the model checker's integers, so they are held as little-endian     *)
(* sequences of limbs.                                                     *)
(***************************************************************************)
EXTENDS Integers, Sequences, FiniteSets, TLC

----------------------------------------------------------------------------
(* Bounds of the model *)

\* longest vector handed to cosineSimilarity
MaxLen == 3
\* the values a vector component takes
Components == {-1, 0, 1}
\* invocations of getEmbeddings, which may overlap
MaxCalls == 2
\* entries of the knowledge base
MaxEntries == 2
\* times the component using useOnlineStatus is mounted
MaxMounts == 2
\* online/offline transitions of the browser
MaxEvents == 3
\* re-renders of a mounted component
MaxRenders == 2

----------------------------------------------------------------------------
(* Natural numbers of any size: little-endian limb sequences, no leading   *)
(* zero limb; zero is the empty sequence.                                  *)

LimbBits == 13
Base == 2^LimbBits

RECURSIVE BigNorm(_)
BigNorm(s) ==
  IF s = <<>> THEN <<>>
  ELSE IF s[Len(s)] = 0 THEN BigNorm(SubSeq(s, 1, Len(s) - 1))
  ELSE s

RECURSIVE BigOfNat(_)
BigOfNat(n) ==
  IF n = 0 THEN <<>> ELSE <<n % Base>> \o BigOfNat(n \div Base)

RECURSIVE BigAddC(_, _, _)
BigAddC(a, b, c) ==
  IF a = <<>> /\ b = <<>> THEN (IF c = 0 THEN <<>> ELSE <<c>>)
  ELSE LET x == IF a = <<>> THEN 0 ELSE Head(a)
           y == IF b = <<>> THEN 0 ELSE Head(b)
           s == x + y + c
       IN  <<s % Base>> \o BigAddC(IF a = <<>> THEN <<>> ELSE Tail(a),
                                   IF b = <<>> THEN <<>> ELSE Tail(b),
                                   s \div Base)

BigAdd(a, b) == BigAddC(a, b, 0)

\* a - b - br for a >= b + br, limb by limb with borrow
RECURSIVE BigSubB(_, _, _)
BigSubB(a, b, br) ==
  IF a = <<>> THEN <<>>
  ELSE LET y == IF b = <<>> THEN 0 ELSE Head(b)
           d == Head(a) - y - br
       IN  <<d % Base>> \o BigSubB(Tail(a),
                                   IF b = <<>> THEN <<>> ELSE Tail(b),
                                   IF d < 0 THEN 1 ELSE 0)

BigSub(a, b) == BigNorm(BigSubB(a, b, 0))

\* -1, 0, 1 as a < b, a = b, a > b; compared from the top limb down
RECURSIVE BigCmpAt(_, _, _)
BigCmpAt(a, b, i) ==
  IF i = 0 THEN 0
  ELSE IF a[i] < b[i] THEN -1
  ELSE IF a[i] > b[i] THEN 1
  ELSE BigCmpAt(a, b, i - 1)

BigCmp(a, b) ==
  IF Len(a) < Len(b) THEN -1
  ELSE IF Len(a) > Len(b) THEN 1
  ELSE BigCmpAt(a, b, Len(a))

RECURSIVE BigMulLimb(_, _, _)
BigMulLimb(a, k, c) ==
  IF a = <<>> THEN (IF c = 0 THEN <<>> ELSE <<c>>)
  ELSE LET p == Head(a) * k + c
       IN  <<p % Base>> \o BigMulLimb(Tail(a), k, p \div Base)

RECURSIVE BigMul(_, _)
BigMul(a, b) ==
  IF a = <<>> \/ b = <<>> THEN <<>>
  ELSE BigNorm(BigAdd(BigMulLimb(a, Head(b), 0), <<0>> \o BigMul(a, Tail(b))))

BigPow2(k) == [i \in 1..(k \div LimbBits) |-> 0] \o <<2^(k % LimbBits)>>

BigShl(a, k) == BigMul(a, BigPow2(k))

RECURSIVE BitLenNat(_)
BitLenNat(n) == IF n = 0 THEN 0 ELSE 1 + BitLenNat(n \div 2)

BigBitLen(a) ==
  IF a = <<>> THEN 0 ELSE LimbBits * (Len(a) - 1) + BitLenNat(a[Len(a)])

\* floor(a / 2^k)
BigShr(a, k) ==
  LET q == k \div LimbBits
      r == k % LimbBits
      t == IF q >= Len(a) THEN <<>> ELSE SubSeq(a, q + 1, Len(a))
  IN  BigNorm([i \in 1..Len(t) |->
                 (t[i] \div 2^r)
                 + (IF i < Len(t) THEN (t[i + 1] % 2^r) * 2^(LimbBits - r) ELSE 0)])

BigIsOdd(a) == a # <<>> /\ a[1] % 2 = 1

\* Long loops run as an outer loop over chunks of ChunkBits steps, which keeps
\* the evaluation stack short.
ChunkBits == 8

\* floor(sqrt(n)) refined over bits hi down to lo of the root
RECURSIVE BigISqrtBits(_, _, _, _)
BigISqrtBits(n, r, hi, lo) ==
  IF hi < lo THEN r
  ELSE LET cand == BigAdd(r, BigPow2(hi))
       IN  IF BigCmp(BigMul(cand, cand), n) <= 0
           THEN BigISqrtBits(n, cand, hi - 1, lo)
           ELSE BigISqrtBits(n, r, hi - 1, lo)

RECURSIVE BigISqrtFrom(_, _, _)
BigISqrtFrom(n, r, b) ==
  IF b < 0 THEN r
  ELSE LET lo == IF b >= ChunkBits THEN b - ChunkBits + 1 ELSE 0
       IN  BigISqrtFrom(n, BigISqrtBits(n, r, b, lo), lo - 1)

\* floor(sqrt(n))
BigISqrt(n) == BigISqrtFrom(n, <<>>, (BigBitLen(n) + 1) \div 2)

\* <<quotient, remainder>> of (r * 2^k) / d for r < d, one bit at a time,
\* appended to the quotient bits q
RECURSIVE BigDivBits(_, _, _, _)
BigDivBits(q, r, d, k) ==
  IF k = 0 THEN <<q, r>>
  ELSE LET r2 == BigAdd(r, r)
           q2 == BigAdd(q, q)
       IN  IF BigCmp(r2, d) >= 0
           THEN BigDivBits(BigAdd(q2, <<1>>), BigSub(r2, d), d, k - 1)
           ELSE BigDivBits(q2, r2, d, k - 1)

RECURSIVE BigDivChunks(_, _, _, _)
BigDivChunks(q, r, d, k) ==
  IF k = 0 THEN <<q, r>>
  ELSE LET step == IF k >= ChunkBits THEN ChunkBits ELSE k
           qr   == BigDivBits(q, r, d, step)
       IN  BigDivChunks(qr[1], qr[2], d, k - step)

----------------------------------------------------------------------------
(* IEEE-754 binary64 values: zero, NaN, an infinity, or s * m * 2^e with   *)
(* 2^52 <= m < 2^53.  JavaScript's === does not tell +0 from -0, so one    *)
(* zero stands for both.                                                   *)

Precision == 53

FZero == [k |-> "zero", s |-> 1, m |-> <<>>, e |-> 0]
FNaN  == [k |-> "nan",  s |-> 1, m |-> <<>>, e |-> 0]
FInf(sgn) == [k |-> "inf", s |-> sgn, m |-> <<>>, e |-> 0]

\* x * 2^e (x > 0) rounded to nearest, ties to even
RoundToDouble(sgn, x, e) ==
  LET len == BigBitLen(x) IN
  IF len <= Precision
  THEN [k |-> "num", s |-> sgn, m |-> BigShl(x, Precision - len), e |-> e - (Precision - len)]
  ELSE LET sh   == len - Precision
           q    == BigShr(x, sh)
           rem  == BigSub(x, BigShl(q, sh))
           c    == BigCmp(rem, BigPow2(sh - 1))
           up   == c = 1 \/ (c = 0 /\ BigIsOdd(q))
           q2   == IF up THEN BigAdd(q, <<1>>) ELSE q
       IN  IF BigBitLen(q2) > Precision
           THEN [k |-> "num", s |-> sgn, m |-> BigPow2(Precision - 1), e |-> e + sh + 1]
           ELSE [k |-> "num", s |-> sgn, m |-> q2, e |-> e + sh]

\* an integer |n| < 2^53 as a Number (exact)
FromInt(n) ==
  IF n = 0 THEN FZero
  ELSE RoundToDouble(IF n < 0 THEN -1 ELSE 1, BigOfNat(IF n < 0 THEN -n ELSE n), 0)

\* x * y
FMul(x, y) ==
  IF x.k = "nan" \/ y.k = "nan" THEN FNaN
  ELSE IF x.k = "inf" \/ y.k = "inf"
       THEN (IF x.k = "zero" \/ y.k = "zero" THEN FNaN ELSE FInf(x.s * y.s))
  ELSE IF x.k = "zero" \/ y.k = "zero" THEN FZero
  ELSE RoundToDouble(x.s * y.s, BigMul(x.m, y.m), x.e + y.e)

\* x / y
FDiv(x, y) ==
  IF x.k = "nan" \/ y.k = "nan" THEN FNaN
  ELSE IF x.k = "inf" THEN (IF y.k = "inf" THEN FNaN ELSE FInf(x.s * y.s))
  ELSE IF y.k = "inf" THEN FZero
  ELSE IF y.k = "zero" THEN (IF x.k = "zero" THEN FNaN ELSE FInf(x.s))
  ELSE IF x.k = "zero" THEN FZero
  ELSE LET first == BigCmp(x.m, y.m) >= 0
           qr == BigDivChunks(IF first THEN <<1>> ELSE <<>>,
                              IF first THEN BigSub(x.m, y.m) ELSE x.m,
                              y.m, Precision + 3)
           sticky == IF qr[2] = <<>> THEN <<>> ELSE <<1>>
       IN  RoundToDouble(x.s * y.s, BigAdd(BigAdd(qr[1], qr[1]), sticky),
                         x.e - y.e - (Precision + 3) - 1)

\* Math.sqrt(x)
FSqrt(x) ==
  IF x.k = "nan" THEN FNaN
  ELSE IF x.k = "zero" THEN FZero
  ELSE IF x.s < 0 THEN FNaN
  ELSE IF x.k = "inf" THEN x
  ELSE LET odd == x.e % 2 = 1
           n   == BigShl(x.m, Precision + 3 + (IF odd THEN 1 ELSE 0))
           ex  == (x.e - (Precision + 3) - (IF odd THEN 1 ELSE 0)) \div 2
           r   == BigISqrt(n)
           sticky == IF BigCmp(BigMul(r, r), n) = 0 THEN <<>> ELSE <<1>>
       IN  RoundToDouble(1, BigAdd(BigAdd(r, r), sticky), ex - 1)

\* x === y
FEq(x, y) == x.k # "nan" /\ y.k # "nan" /\ x = y

\* x < y
FLt(x, y) ==
  IF x.k = "nan" \/ y.k = "nan" THEN FALSE
  ELSE IF x = y THEN FALSE
  ELSE LET sx == IF x.k = "zero" THEN 0 ELSE x.s
           sy == IF y.k = "zero" THEN 0 ELSE y.s
       IN  IF sx # sy THEN sx < sy
           ELSE IF x.k = "inf" THEN FALSE
           ELSE IF y.k = "inf" THEN TRUE
           ELSE LET below == x.e < y.e \/ (x.e = y.e /\ BigCmp(x.m, y.m) < 0)
                IN  IF sx > 0 THEN below ELSE ~below

\* x >= y
FGe(x, y) == x.k # "nan" /\ y.k # "nan" /\ ~FLt(x, y)

\* x <= y
FLe(x, y) == FGe(y, x)

----------------------------------------------------------------------------
(* State *)

VARIABLES
  calls,           \* getEmbeddings: each invocation's position, response and outcome
  requests,        \* getEmbeddings: the outbound requests issued so far, in order
  vecA, vecB,      \* the arguments of the cosineSimilarity call
  cosPc,           \* "ready" before the call, "done" after it
  cosResult,       \* how the call ended
  kb,              \* the knowledge base: the entries in insertion order
  matchPc,         \* match: "idle", "embedding" (awaiting the query vector), "done"
  matchResult,     \* match: the MatchResult, or the provider's failure
  navOnline,       \* navigator.onLine
  hookPhase,       \* "unmounted", "rendered" (effect pending), "effective"
  hookInst,        \* the mounts so far; the current instance when mounted
  isOnline,        \* the hook's isOnline state, per instance
  listeners,       \* the listeners registered on window: <<event type, instance>>
  regCount,        \* runs of the effect's setup for the current instance
  events,          \* online/offline transitions so far
  renders          \* re-renders of the current instance so far

embedVars == <<calls, requests>>
cosVars == <<vecA, vecB, cosPc, cosResult>>
matchVars == <<kb, matchPc, matchResult>>
hookVars == <<navOnline, hookPhase, hookInst, isOnline, listeners, regCount, events, renders>>
vars == <<embedVars, cosVars, matchVars, hookVars>>

CosIdle ==
  /\ vecA = <<>>
  /\ vecB = <<>>
  /\ cosPc = "off"
  /\ cosResult = [kind |-> "none", value |-> FNaN]

NoMatchResult ==
  [status |-> "none", query |-> <<>>, matched |-> FALSE, bestEntry |-> 0, score |-> FNaN]

MatchIdle ==
  /\ kb = <<>>
  /\ matchPc = "idle"
  /\ matchResult = NoMatchResult

HookIdle ==
  /\ navOnline = TRUE
  /\ hookPhase = "unmounted"
  /\ hookInst = 0
  /\ isOnline = [i \in 1..MaxMounts |-> FALSE]
  /\ listeners = {}
  /\ regCount = 0
  /\ events = 0
  /\ renders = 0

----------------------------------------------------------------------------
(* getEmbeddings.  The parsed response body is a JavaScript value; the     *)
(* model keeps the two properties the function reads, each with its type   *)
(* tag, so that a missing property reads as undefined.                     *)

ValUndefined == [t |-> "undefined", arr |-> <<>>]
ValArray(v)  == [t |-> "array", arr |-> v]
EmbUndefined == [t |-> "undefined", values |-> ValUndefined]
EmbObject(v) == [t |-> "object", values |-> v]
DataObject(emb) == [t |-> "object", embedding |-> emb]
DataNull     == [t |-> "null", embedding |-> EmbUndefined]

\* the input texts
Texts == {"fees", "courses"}

\* the HTTP statuses the provider answers with
Statuses == {200, 400, 500}

\* the response bodies the provider answers with
BodyFull        == "{\"embedding\":{\"values\":[1,0]}}"
BodyNoValues    == "{\"embedding\":{}}"
BodyNoEmbedding == "{}"
BodyNull        == "null"
BodyApiError    == "{\"error\":{\"code\":400,\"message\":\"API key not valid\"}}"
BodyPlain       == "Service Unavailable"
Bodies == {BodyFull, BodyNoValues, BodyNoEmbedding, BodyNull, BodyApiError, BodyPlain}

\* response.ok
ResponseOk(status) == status >= 200 /\ status <= 299

\* response.json(): JSON.parse of the body text; a text that is not JSON throws
JsonParse(text) ==
  CASE text = BodyFull        -> [ok |-> TRUE, data |-> DataObject(EmbObject(ValArray(<<1, 0>>)))]
    [] text = BodyNoValues    -> [ok |-> TRUE, data |-> DataObject(EmbObject(ValUndefined))]
    [] text = BodyNoEmbedding -> [ok |-> TRUE, data |-> DataObject(EmbUndefined)]
    [] text = BodyApiError    -> [ok |-> TRUE, data |-> DataObject(EmbUndefined)]
    [] text = BodyNull        -> [ok |-> TRUE, data |-> DataNull]
    [] OTHER                  -> [ok |-> FALSE, data |-> DataNull]

\* an error: its constructor and its message, the message as the parts of the
\* template literal (the status as the number the template converts)
NoError == [name |-> "", message |-> <<"", 0, "", "">>]
HttpError(status, errorText) ==
  [name |-> "Error", message |-> <<"HTTP error! Status: ", status, " - ", errorText>>]
OtherError(name) == [name |-> name, message |-> <<"", 0, "", "">>]

Pending      == [kind |-> "pending",  value |-> ValUndefined, error |-> NoError]
Resolved(v)  == [kind |-> "resolved", value |-> v, error |-> NoError]
Rejected(e)  == [kind |-> "rejected", value |-> ValUndefined, error |-> e]

\* data.embedding.values: reading a property of undefined or null throws
ReadEmbeddingValues(data) ==
  IF data.t \in {"undefined", "null"} THEN Rejected(OtherError("TypeError"))
  ELSE IF data.embedding.t \in {"undefined", "null"} THEN Rejected(OtherError("TypeError"))
  ELSE Resolved(data.embedding.values)

NoResponse == [answered |-> FALSE, status |-> 0, body |-> ""]

IdleCall == [pc |-> "idle", text |-> "", response |-> NoResponse, outcome |-> Pending]

EmbedIdle ==
  /\ calls = [i \in 1..MaxCalls |-> IdleCall]
  /\ requests = <<>>

\* getEmbeddings(text) is called: it runs to the await of fetch, which issues
\* the request
Invoke(i, text) ==
  /\ calls[i].pc = "idle"
  /\ calls' = [calls EXCEPT ![i].pc = "fetch", ![i].text = text]
  /\ requests' = Append(requests, [call |-> i, text |-> text])
  /\ UNCHANGED <<cosVars, matchVars, hookVars>>

\* FetchResolves without the test of response.ok: every response is parsed
FetchResolvesUnchecked(i, status, body) ==
  /\ calls[i].pc = "fetch"
  /\ calls' = [calls EXCEPT
       ![i].response = [answered |-> TRUE, status |-> status, body |-> body],
       ![i].pc = "json"]
  /\ UNCHANGED <<requests, cosVars, matchVars, hookVars>>

\* the fetch promise resolves with a response: the function tests response.ok
\* and runs to the await of response.text() or of response.json()
FetchResolves(i, status, body) ==
  /\ calls[i].pc = "fetch"
  /\ calls' = [calls EXCEPT
       ![i].response = [answered |-> TRUE, status |-> status, body |-> body],
       ![i].pc = IF ~ResponseOk(status) THEN "text" ELSE "json"]
  /\ UNCHANGED <<requests, cosVars, matchVars, hookVars>>

\* the fetch promise rejects (the network call could not be completed): the
\* await throws and the function's promise rejects
FetchRejects(i) ==
  /\ calls[i].pc = "fetch"
  /\ calls' = [calls EXCEPT ![i].pc = "done",
                            ![i].outcome = Rejected(OtherError("TypeError"))]
  /\ UNCHANGED <<requests, cosVars, matchVars, hookVars>>

\* TextResolves with a retry: a non-success response issues the request again
TextResolvesRetry(i) ==
  /\ calls[i].pc = "text"
  /\ calls' = [calls EXCEPT ![i].pc = "fetch"]
  /\ requests' = Append(requests, [call |-> i, text |-> calls[i].text])
  /\ UNCHANGED <<cosVars, matchVars, hookVars>>

\* response.text() resolves: the function throws the HTTP error
TextResolves(i) ==
  /\ calls[i].pc = "text"
  /\ calls' = [calls EXCEPT ![i].pc = "done",
       ![i].outcome = Rejected(HttpError(calls[i].response.status,
                                         calls[i].response.body))]
  /\ UNCHANGED <<requests, cosVars, matchVars, hookVars>>

\* response.json() settles: a body that is not JSON rejects; otherwise the
\* function returns data.embedding.values
JsonSettles(i) ==
  /\ calls[i].pc = "json"
  /\ LET parsed == JsonParse(calls[i].response.body)
     IN  calls' = [calls EXCEPT ![i].pc = "done",
           ![i].outcome = IF parsed.ok THEN ReadEmbeddingValues(parsed.data)
                          ELSE Rejected(OtherError("SyntaxError"))]
  /\ UNCHANGED <<requests, cosVars, matchVars, hookVars>>

EmbedInit ==
  /\ EmbedIdle
  /\ CosIdle
  /\ MatchIdle
  /\ HookIdle

EmbedNext ==
  \E i \in 1..MaxCalls :
    \/ \E text \in Texts : Invoke(i, text)
    \/ \E status \in Statuses, body \in Bodies : FetchResolves(i, status, body)
    \/ FetchRejects(i)
    \/ TextResolves(i)
    \/ JsonSettles(i)

SpecEmbed == EmbedInit /\ [][EmbedNext]_vars

----------------------------------------------------------------------------
(* cosineSimilarity.  The accumulators dotProduct, magnitudeA, magnitudeB  *)
(* hold sums of products of the components.  Components are small          *)
(* integers, so every product and partial sum is an integer below 2^53,    *)
(* which a Number holds exactly: an accumulator is that integer, or NaN    *)
(* once an operand was undefined.                                          *)

NumInt(n) == [nan |-> FALSE, n |-> n]
NumNaN    == [nan |-> TRUE,  n |-> 0]

\* vec[i] of a JavaScript array (i counted from 1 here): undefined past the end
Elt(vec, i) == IF i <= Len(vec) THEN NumInt(vec[i]) ELSE NumNaN

\* x * y and x + y; undefined as an operand converts to NaN
NumMul(x, y) == IF x.nan \/ y.nan THEN NumNaN ELSE NumInt(x.n * y.n)
NumAdd(x, y) == IF x.nan \/ y.nan THEN NumNaN ELSE NumInt(x.n + y.n)

\* the accumulator as a binary64 value
ToDouble(x) == IF x.nan THEN FNaN ELSE FromInt(x.n)

\* the loop of cosineSimilarity from index i on: i < vecA.length
RECURSIVE CosLoop(_, _, _, _)
CosLoop(a, b, i, acc) ==
  IF i > Len(a) THEN acc
  ELSE CosLoop(a, b, i + 1,
         [dotProduct |-> NumAdd(acc.dotProduct, NumMul(Elt(a, i), Elt(b, i))),
          magnitudeA |-> NumAdd(acc.magnitudeA, NumMul(Elt(a, i), Elt(a, i))),
          magnitudeB |-> NumAdd(acc.magnitudeB, NumMul(Elt(b, i), Elt(b, i)))])

CosAccumulate(a, b) ==
  CosLoop(a, b, 1, [dotProduct |-> NumInt(0), magnitudeA |-> NumInt(0),
                    magnitudeB |-> NumInt(0)])

\* the vectors the embedding provider answers with (dimension 2)
Embeddings == {<<1, 0>>, <<0, 1>>, <<3, 4>>, <<4, 3>>}

\* Math.sqrt of the sums of squares the inputs of the model produce, computed
\* once
MaxSquare == CHOOSE q \in {c * c : c \in Components} :
               \A c \in Components : c * c <= q
SqrtTable ==
  [n \in (0..(MaxLen * MaxSquare)) \cup {v[1] * v[1] + v[2] * v[2] : v \in Embeddings}
     |-> FSqrt(FromInt(n))]

\* Math.sqrt(x) of an accumulator
MathSqrt(x) ==
  IF x.nan THEN FNaN
  ELSE IF x.n \in DOMAIN SqrtTable THEN SqrtTable[x.n]
  ELSE FSqrt(FromInt(x.n))

\* cosineSimilarity whose zero test forgets magnitudeB
cosineSimilarityGuardAOnly(a, b) ==
  LET acc == CosAccumulate(a, b)
      magnitudeA == MathSqrt(acc.magnitudeA)
      magnitudeB == MathSqrt(acc.magnitudeB)
  IN  IF FEq(magnitudeA, FZero)
      THEN FZero
      ELSE FDiv(ToDouble(acc.dotProduct), FMul(magnitudeA, magnitudeB))

\* cosineSimilarity that divides by magnitudeA twice
cosineSimilarityDivAA(a, b) ==
  LET acc == CosAccumulate(a, b)
      magnitudeA == MathSqrt(acc.magnitudeA)
      magnitudeB == MathSqrt(acc.magnitudeB)
  IN  IF FEq(magnitudeA, FZero) \/ FEq(magnitudeB, FZero)
      THEN FZero
      ELSE FDiv(ToDouble(acc.dotProduct), FMul(magnitudeA, magnitudeA))

\* cosineSimilarity(vecA, vecB)
cosineSimilarity(a, b) ==
  LET acc == CosAccumulate(a, b)
      magnitudeA == MathSqrt(acc.magnitudeA)
      magnitudeB == MathSqrt(acc.magnitudeB)
  IN  IF FEq(magnitudeA, FZero) \/ FEq(magnitudeB, FZero)
      THEN FZero
      ELSE FDiv(ToDouble(acc.dotProduct), FMul(magnitudeA, magnitudeB))

----------------------------------------------------------------------------
(* The scorer on its own: every pair of vectors within the bounds, then    *)
(* the call.                                                               *)

Vectors == UNION {[1..n -> Components] : n \in 0..MaxLen}

CosInit ==
  /\ vecA \in Vectors
  /\ vecB \in Vectors
  /\ cosPc = "ready"
  /\ cosResult = [kind |-> "none", value |-> FNaN]
  /\ EmbedIdle
  /\ MatchIdle
  /\ HookIdle

CosCall ==
  /\ cosPc = "ready"
  /\ cosPc' = "done"
  /\ cosResult' = [kind |-> "return", value |-> cosineSimilarity(vecA, vecB)]
  /\ UNCHANGED <<vecA, vecB, embedVars, matchVars, hookVars>>

CosNext == CosCall

SpecCos == CosInit /\ [][CosNext]_vars

----------------------------------------------------------------------------
(* SIMILARITY_THRESHOLD and the matcher.  The literal 0.6 denotes the      *)
(* binary64 value nearest 6/10, which is also the correctly rounded        *)
(* quotient 6 / 10.                                                        *)

\* a stricter threshold, 0.8
SIMILARITY_THRESHOLD_Strict == FDiv(FromInt(8), FromInt(10))

SIMILARITY_THRESHOLD == FDiv(FromInt(6), FromInt(10))

\* the canonical questions and their answers
Questions == {"fees", "courses"}
AnswerOf(q) == IF q = "fees" THEN "Fee info" ELSE "Course info"

\* addEntry(question, answer): appends an entry, its embedding left absent
AddEntry(q) ==
  /\ matchPc = "idle"
  /\ Len(kb) < MaxEntries
  /\ kb' = Append(kb, [question |-> q, answer |-> AnswerOf(q),
                       embedded |-> FALSE, embedding |-> <<>>])
  /\ UNCHANGED <<matchPc, matchResult, embedVars, cosVars, hookVars>>

\* ensureEmbedded(), one entry at a time in order: the first entry lacking an
\* embedding gets the vector the provider answers with
EnsureEmbeddedStep(v) ==
  /\ matchPc = "idle"
  /\ \E i \in 1..Len(kb) :
       /\ ~kb[i].embedded
       /\ \A j \in 1..(i - 1) : kb[j].embedded
       /\ kb' = [kb EXCEPT ![i].embedded = TRUE, ![i].embedding = v]
  /\ UNCHANGED <<matchPc, matchResult, embedVars, cosVars, hookVars>>

\* the score of every entry against the query vector, in insertion order
RECURSIVE ScoresFrom(_, _)
ScoresFrom(q, i) ==
  IF i > Len(kb) THEN <<>>
  ELSE <<cosineSimilarity(q, kb[i].embedding)>> \o ScoresFrom(q, i + 1)

Scores(q) == ScoresFrom(q, 1)

\* the first entry, in insertion order, whose score no entry exceeds
BestIndex(sc) ==
  CHOOSE i \in 1..Len(sc) :
    /\ \A j \in 1..Len(sc) : FGe(sc[i], sc[j])
    /\ \A j \in 1..(i - 1) : ~FGe(sc[j], sc[i])

\* steps 2 to 4 of match for the query vector q
MatchDecision(q) ==
  IF kb = <<>>
  THEN [status |-> "ok", query |-> q, matched |-> FALSE, bestEntry |-> 0,
        score |-> FromInt(-1)]
  ELSE LET sc == Scores(q)
           b  == BestIndex(sc)
       IN  IF FGe(sc[b], SIMILARITY_THRESHOLD)
           THEN [status |-> "ok", query |-> q, matched |-> TRUE, bestEntry |-> b,
                 score |-> sc[b]]
           ELSE [status |-> "ok", query |-> q, matched |-> FALSE, bestEntry |-> 0,
                 score |-> sc[b]]

\* match(queryText) is called, every entry embedded: it awaits the query vector
MatchStart ==
  /\ matchPc = "idle"
  /\ \A i \in 1..Len(kb) : kb[i].embedded
  /\ matchPc' = "embedding"
  /\ UNCHANGED <<kb, matchResult, embedVars, cosVars, hookVars>>

\* the provider answers with the query vector q: score, select, gate
MatchEmbedded(q) ==
  /\ matchPc = "embedding"
  /\ matchPc' = "done"
  /\ matchResult' = MatchDecision(q)
  /\ UNCHANGED <<kb, embedVars, cosVars, hookVars>>

\* the provider fails: the failure goes to the caller, no MatchResult
MatchProviderError ==
  /\ matchPc = "embedding"
  /\ matchPc' = "done"
  /\ matchResult' = [status |-> "ProviderError", query |-> <<>>, matched |-> FALSE,
                     bestEntry |-> 0, score |-> FNaN]
  /\ UNCHANGED <<kb, embedVars, cosVars, hookVars>>

MatchInit ==
  /\ MatchIdle
  /\ EmbedIdle
  /\ CosIdle
  /\ HookIdle

MatchNext ==
  \/ \E q \in Questions : AddEntry(q)
  \/ \E v \in Embeddings : EnsureEmbeddedStep(v)
  \/ MatchStart
  \/ \E q \in Embeddings : MatchEmbedded(q)
  \/ MatchProviderError

SpecMatch == MatchInit /\ [][MatchNext]_vars

----------------------------------------------------------------------------
(* useOnlineStatus, in a component that is mounted, re-rendered and        *)
(* unmounted, while the browser goes online and offline.                   *)

\* the two listeners the effect of instance i creates
HandlersOf(i) == {<<"online", i>>, <<"offline", i>>}

\* the first render: useState(navigator.onLine) reads the browser's status;
\* the effect is scheduled and has not run
MountRender ==
  /\ hookPhase = "unmounted"
  /\ hookInst < MaxMounts
  /\ hookInst' = hookInst + 1
  /\ isOnline' = [isOnline EXCEPT ![hookInst + 1] = navOnline]
  /\ hookPhase' = "rendered"
  /\ regCount' = 0
  /\ renders' = 0
  /\ UNCHANGED <<navOnline, listeners, events, embedVars, cosVars, matchVars>>

\* the effect's setup runs after the first render: both listeners are added
RunEffect ==
  /\ hookPhase = "rendered"
  /\ listeners' = listeners \cup HandlersOf(hookInst)
  /\ regCount' = regCount + 1
  /\ hookPhase' = "effective"
  /\ UNCHANGED <<navOnline, hookInst, isOnline, events, renders, embedVars, cosVars,
                 matchVars>>

\* a later render: useState keeps the state, and the effect's dependency
\* array is empty, so neither its cleanup nor its setup runs again
Rerender ==
  /\ hookPhase = "effective"
  /\ renders < MaxRenders
  /\ renders' = renders + 1
  /\ UNCHANGED <<navOnline, hookPhase, hookInst, isOnline, listeners, regCount, events,
                 embedVars, cosVars, matchVars>>

\* a cleanup that removes the 'online' listener only
CleanupOnlineOnly(i) == listeners \ {<<"online", i>>}

\* the effect's cleanup: removes the two listeners the setup added
Cleanup(i) == listeners \ HandlersOf(i)

\* the component unmounts: the cleanup of the effect runs.  React runs a
\* pending effect before it unmounts the component, so an unmount is always
\* preceded by RunEffect.
Unmount ==
  /\ hookPhase = "effective"
  /\ listeners' = Cleanup(hookInst)
  /\ hookPhase' = "unmounted"
  /\ UNCHANGED <<navOnline, hookInst, isOnline, regCount, events, renders, embedVars,
                 cosVars, matchVars>>

\* the browser's status changes: navigator.onLine is updated and the event is
\* dispatched to the listeners registered for it; handleOnline and
\* handleOffline set the state of the instance that created them
BrowserEvent(online) ==
  /\ navOnline # online
  /\ events < MaxEvents
  /\ events' = events + 1
  /\ navOnline' = online
  /\ isOnline' = [i \in 1..MaxMounts |->
                    IF <<(IF online THEN "online" ELSE "offline"), i>> \in listeners
                    THEN online ELSE isOnline[i]]
  /\ UNCHANGED <<hookPhase, hookInst, listeners, regCount, renders, embedVars, cosVars,
                 matchVars>>

HookInit ==
  /\ navOnline \in BOOLEAN
  /\ hookPhase = "unmounted"
  /\ hookInst = 0
  /\ isOnline = [i \in 1..MaxMounts |-> FALSE]
  /\ listeners = {}
  /\ regCount = 0
  /\ events = 0
  /\ renders = 0
  /\ EmbedIdle
  /\ CosIdle
  /\ MatchIdle

HookNext ==
  \/ MountRender
  \/ RunEffect
  \/ Rerender
  \/ Unmount
  \/ \E online \in BOOLEAN : BrowserEvent(online)

SpecHook == HookInit /\ [][HookNext]_vars

----------------------------------------------------------------------------
(* Properties *)

StatusOk(status) == status \in 200..299

LacksVector(body) ==
  LET parsed == JsonParse(body)
  IN  /\ parsed.ok
      /\ \/ parsed.data.t # "object"
         \/ parsed.data.embedding.t # "object"
         \/ parsed.data.embedding.values.t # "array"

\* C2: an invocation of getEmbeddings whose request was answered with a 2xx
\* status and a body without the vector field (no embedding object, or an
\* embedding object without values) ends rejected, never resolved with an
\* absent value.
C2_MissingVectorFieldFails ==
  \A i \in 1..MaxCalls :
    (/\ calls[i].pc = "done"
     /\ calls[i].response.answered
     /\ StatusOk(calls[i].response.status)
     /\ LacksVector(calls[i].response.body))
    => calls[i].outcome.kind = "rejected"

\* C8: every invocation of getEmbeddings that has started has issued exactly
\* one outbound request, whatever its state or outcome, and no request belongs
\* to an invocation that has not started: n invocations, n requests.
C8_OneRequestPerInvocation ==
  /\ Len(requests) = Cardinality({i \in 1..MaxCalls : calls[i].pc # "idle"})
  /\ \A i \in 1..MaxCalls :
       Cardinality({k \in 1..Len(requests) : requests[k].call = i})
         = IF calls[i].pc = "idle" THEN 0 ELSE 1

\* C8 witness: two invocations with the same text have ended, one rejected
\* after a non-success response and one resolved, and two requests were issued.
C8_Witness ==
  \E i, j \in 1..MaxCalls :
    /\ i # j
    /\ calls[i].pc = "done" /\ calls[j].pc = "done"
    /\ calls[i].text = calls[j].text
    /\ calls[i].outcome.kind = "rejected"
    /\ calls[i].response.answered /\ ~StatusOk(calls[i].response.status)
    /\ calls[j].outcome.kind = "resolved"
    /\ Len(requests) = 2

ZeroNorm(v) == \A i \in 1..Len(v) : v[i] = 0

\* C3: cosineSimilarity called with vectors of different lengths throws; it
\* does not return a number.
C3_LengthMismatchThrows ==
  (cosPc = "done" /\ Len(vecA) # Len(vecB)) => cosResult.kind = "throw"

\* C5: cosineSimilarity called with equal-length vectors of which at least one
\* has norm zero (both zero and both empty included) returns exactly 0.
C5_ZeroNormReturnsZero ==
  (cosPc = "done" /\ Len(vecA) = Len(vecB) /\ (ZeroNorm(vecA) \/ ZeroNorm(vecB)))
  => cosResult = [kind |-> "return", value |-> FZero]

\* C5 witness: the call with a non-zero first vector and a zero second vector
\* has returned 0.
C5_Witness ==
  /\ cosPc = "done"
  /\ Len(vecA) = Len(vecB) /\ Len(vecA) >= 1
  /\ ~ZeroNorm(vecA) /\ ZeroNorm(vecB)
  /\ cosResult = [kind |-> "return", value |-> FZero]

\* C6: for equal-length vectors, the value cosineSimilarity(vecA, vecB)
\* returned is the value cosineSimilarity(vecB, vecA) returns.
C6_Symmetric ==
  (cosPc = "done" /\ Len(vecA) = Len(vecB))
  => /\ cosResult.kind = "return"
     /\ FEq(cosResult.value, cosineSimilarity(vecB, vecA))

\* C6 witness: the call with two vectors of different norms and a non-zero
\* dot product has returned.
C6_Witness ==
  /\ cosPc = "done"
  /\ Len(vecA) = Len(vecB)
  /\ CosAccumulate(vecA, vecB).magnitudeA # CosAccumulate(vecA, vecB).magnitudeB
  /\ cosResult.kind = "return"
  /\ cosResult.value.k = "num"

\* C7: for equal-length vectors of non-zero norm, the value cosineSimilarity
\* returns lies in [-1, 1].
C7_ResultWithinUnitInterval ==
  (cosPc = "done" /\ Len(vecA) = Len(vecB) /\ ~ZeroNorm(vecA) /\ ~ZeroNorm(vecB))
  => /\ FLe(FromInt(-1), cosResult.value)
     /\ FLe(cosResult.value, FromInt(1))

\* the Number the literal 0.6 denotes
SixTenths == FDiv(FromInt(6), FromInt(10))

\* C4: a match that returned a MatchResult is matched exactly when some
\* entry's score (so the maximum score) is >= 0.6; when matched, the best
\* entry is an entry no other entry outscores; when not matched, there is no
\* best entry.
C4_ClosedThresholdGate ==
  (matchPc = "done" /\ matchResult.status = "ok") =>
    LET score(i) == cosineSimilarity(matchResult.query, kb[i].embedding)
    IN  /\ matchResult.matched <=> \E i \in 1..Len(kb) : FGe(score(i), SixTenths)
        /\ matchResult.matched =>
             /\ matchResult.bestEntry \in 1..Len(kb)
             /\ \A j \in 1..Len(kb) : FGe(score(matchResult.bestEntry), score(j))
        /\ ~matchResult.matched => matchResult.bestEntry = 0

\* C4 witness: a match against two entries has returned matched with a
\* maximum score of exactly 0.6.
C4_Witness ==
  /\ matchPc = "done"
  /\ matchResult.status = "ok"
  /\ Len(kb) = 2
  /\ matchResult.matched
  /\ FEq(matchResult.score, SixTenths)

\* C9: while the component is mounted, the hook's isOnline equals
\* navigator.onLine.
C9_HookTracksBrowser ==
  hookPhase # "unmounted" => isOnline[hookInst] = navOnline

\* C10: the effect's setup has run exactly once for a mounted instance whose
\* effect has run and not at all before, it leaves exactly the instance's two
\* listeners registered; after unmount no listener is registered; and no step
\* taken while the component stays unmounted changes any instance's isOnline.
C10_ListenersOnlyWhileMounted ==
  /\ [](/\ hookPhase = "rendered" => (regCount = 0 /\ listeners = {})
        /\ hookPhase = "effective" => (regCount = 1 /\ listeners = HandlersOf(hookInst))
        /\ hookPhase = "unmounted" => listeners = {})
  /\ [][(hookPhase = "unmounted" /\ hookPhase' = "unmounted") => isOnline' = isOnline]_vars

\* C10 witness: an instance was mounted, its effect ran once, it was unmounted
\* and no listener remains, and the browser's status has changed since it was
\* last delivered to the instance.
C10_Witness ==
  /\ hookPhase = "unmounted"
  /\ hookInst >= 1
  /\ regCount = 1
  /\ listeners = {}
  /\ events >= 1
  /\ isOnline[hookInst] # navOnline

====
